---- MODULE Spec2Model ----
(***************************************************************************)
(* The recording session of src/context/RecordingContext.tsx: the state    *)
(* held by useReducer(recordingReducer, initialState) inside               *)
(* RecordingProvider, and the eight callbacks the provider hands out.      *)
(*                                                                         *)
(* uuidv4() is modelled as a generator of fresh identifiers 1, 2, 3, ...   *)
(* (uuidCount is how many it has produced); Date.now() and new Date() read *)
(* the wall clock, which only moves forward.  A Partial<T> value is a      *)
(* function whose domain is the set of the fields it supplies, and an      *)
(* object spread { ...a, ...b } is Spread(a, b).                           *)
(***************************************************************************)
EXTENDS Integers, Sequences, FiniteSets, TLC

VARIABLES
    state,      \* the RecordingState held by useReducer
    uuidCount,  \* how many identifiers uuidv4() has produced
    clock,      \* the wall clock
    lastCall,   \* the callback invoked last: its name, its arguments, and
                \* what it found in the state it was invoked in
    hook,       \* the latest useRecording() call of a component: where the
                \* component is rendered and whether the call threw
    session     \* the calls since startRecording, as long as they are all
                \* addStep and removeStep calls: the name and url given to
                \* startRecording, the steps added, the ids removed

vars == <<state, uuidCount, clock, lastCall, hook, session>>

\* ------------------------------------------------------------- bounds

\* uuidv4() is called at most MaxUuid times in a run.
MaxUuid == 3

\* While every command is exercised the ledger holds at most MaxSteps steps.
MaxSteps == 2

\* ------------------------------------------------------------- inputs

\* The readings of the wall clock.
Times == {1, 2}

\* The sessions a caller starts: <<testName, url>>.
StartInputs == {<<"t1", "http://a">>, <<"t2", "http://b">>}

\* The payload of a step is opaque to the session; one field stands for it.
ActionKinds == {"click", "type"}

\* An identifier no uuidv4() call returns ("nonexistent-id").
ForeignId == 0

\* The identifiers uuidv4() has produced so far.
IssuedIds == 1..uuidCount

\* The identifiers of the steps of a ledger.
StepIds(steps) == {steps[i].id : i \in 1..Len(steps)}

\* The identifiers a caller names: those it reads in the ledger and a foreign one.
CallerIds == {ForeignId} \cup StepIds(state.steps)

\* The values a caller supplies for each field of the healing configuration
\* (confidenceThreshold in hundredths).
StrategySets ==
    { {"ATTRIBUTE_MATCHING", "TEXT_CONTENT_MATCHING", "POSITIONAL_MATCHING"},
      {"ATTRIBUTE_MATCHING"} }
Thresholds == {80, 90}
RetryAttempts == {3, 5}
Timeouts == {5000, 1000}

\* ------------------------------------------------------------- objects

\* currentTest: null
Null == [null |-> TRUE]

\* { ...a, ...b }: the fields of both, those of b winning.
Spread(a, b) ==
    [k \in (DOMAIN a) \cup (DOMAIN b) |-> IF k \in DOMAIN b THEN b[k] ELSE a[k]]

\* An object that supplies field name with one of vals, or does not supply it.
Optional(name, vals) == {<<>>} \cup {[k \in {name} |-> v] : v \in vals}

\* Omit<TestStep, 'id' | 'timestamp'> as addStep receives it: the payload;
\* at run time the object may carry an id of the caller's as well.
StepDataSet ==
    { Spread([action |-> a], i) :
        a \in ActionKinds, i \in Optional("id", CallerIds) }

\* Partial<TestStep> as updateStep receives it: any of the payload and the
\* id, the id one the caller reads in the ledger.
StepUpdateSet ==
    { Spread(i, a) :
        i \in Optional("id", StepIds(state.steps)),
        a \in Optional("action", ActionKinds) }

\* The healing configurations supplied while the ledger is exercised.
HealingPartialFew ==
    { [confidenceThreshold |-> 90], [confidenceThreshold |-> 80] }

\* Partial<RecordingState['healingConfig']> as updateHealingConfig receives it.
HealingPartialSet ==
    { Spread(Spread(e, c), Spread(m, f)) :
        e \in Optional("enabledStrategies", StrategySets),
        c \in Optional("confidenceThreshold", Thresholds),
        m \in Optional("maxRetryAttempts", RetryAttempts),
        f \in Optional("fallbackTimeout", Timeouts) }

initialState ==
    [ isRecording |-> FALSE,
      isPaused |-> FALSE,
      currentTest |-> Null,
      steps |-> <<>>,
      healingConfig |->
        [ enabledStrategies |->
            {"ATTRIBUTE_MATCHING", "TEXT_CONTENT_MATCHING", "POSITIONAL_MATCHING"},
          confidenceThreshold |-> 80,
          maxRetryAttempts |-> 3,
          fallbackTimeout |-> 5000 ] ]

\* ------------------------------------------------------------- reducer

\* What one evaluation of the reducer reads from outside its arguments:
\* uuidv4() and the two new Date() of START_RECORDING, with n identifiers
\* produced and the clock at t.
EnvSet(n, t) ==
    { e \in [uuid : {n + 1}, createdAt : {t}, lastModified : Times] :
        e.lastModified \in {t, t + 1} }

\* newTest of START_RECORDING
NewTest(payload, env) ==
    [ id |-> env.uuid,
      name |-> payload.testName,
      description |-> <<"Generated test for ", payload.url>>,
      steps |-> <<>>,
      assertions |-> <<>>,
      metadata |->
        [ url |-> payload.url,
          viewport |-> [width |-> 1920, height |-> 1080],
          createdAt |-> env.createdAt,
          lastModified |-> env.lastModified ] ]

\* START_RECORDING keeping the ledger of the session before.
StartRecordingKeepsSteps(s, action, env) ==
    [s EXCEPT !.isRecording = TRUE,
              !.isPaused = FALSE,
              !.currentTest = NewTest(action.payload, env)]

\* START_RECORDING putting healingConfig back to its defaults.
StartRecordingResetsConfig(s, action, env) ==
    [s EXCEPT !.isRecording = TRUE,
              !.isPaused = FALSE,
              !.currentTest = NewTest(action.payload, env),
              !.steps = <<>>,
              !.healingConfig = initialState.healingConfig]

\* START_RECORDING leaving isPaused as it finds it.
StartRecordingKeepsPaused(s, action, env) ==
    [s EXCEPT !.isRecording = TRUE,
              !.currentTest = NewTest(action.payload, env),
              !.steps = <<>>]

\* { ...state, isRecording: true, isPaused: false, currentTest: newTest,
\*   steps: [] }
StartRecordingCase(s, action, env) ==
    [s EXCEPT !.isRecording = TRUE,
              !.isPaused = FALSE,
              !.currentTest = NewTest(action.payload, env),
              !.steps = <<>>]

\* PAUSE_RECORDING setting the flag instead of flipping it.
PauseRecordingSetsPaused(s) == [s EXCEPT !.isPaused = TRUE]

\* { ...state, isPaused: !state.isPaused }
PauseRecordingCase(s) == [s EXCEPT !.isPaused = ~s.isPaused]

\* STOP_RECORDING clearing isRecording alone.
StopRecordingKeepsPaused(s) == [s EXCEPT !.isRecording = FALSE]

\* STOP_RECORDING emptying the ledger as well.
StopRecordingClearsSteps(s) ==
    [s EXCEPT !.isRecording = FALSE, !.isPaused = FALSE, !.steps = <<>>]

\* STOP_RECORDING discarding the test of the session it ends.
StopRecordingDropsTest(s) ==
    [s EXCEPT !.isRecording = FALSE, !.isPaused = FALSE, !.currentTest = Null]

\* { ...state, isRecording: false, isPaused: false }
StopRecordingCase(s) == [s EXCEPT !.isRecording = FALSE, !.isPaused = FALSE]

\* ADD_STEP appending the step to currentTest.steps as well.
AddStepIntoTest(s, action) ==
    [s EXCEPT !.steps = Append(s.steps, action.payload),
              !.currentTest =
                  IF s.currentTest = Null
                  THEN Null
                  ELSE [s.currentTest EXCEPT
                           !.steps = Append(@, action.payload)]]

\* ADD_STEP putting the step first: [action.payload, ...state.steps]
AddStepPrepends(s, action) ==
    [s EXCEPT !.steps = <<action.payload>> \o s.steps]

AddStepCase(s, action) == [s EXCEPT !.steps = Append(s.steps, action.payload)]

\* REMOVE_STEP doing nothing unless a recording is in progress.
RemoveStepOnlyWhileRecording(s, action) ==
    IF s.isRecording
    THEN [s EXCEPT !.steps =
             SelectSeq(s.steps, LAMBDA step : step.id # action.payload)]
    ELSE s

\* REMOVE_STEP keeping the steps of the id and dropping the others.
RemoveStepKeepsMatching(s, action) ==
    [s EXCEPT !.steps =
        SelectSeq(s.steps, LAMBDA step : step.id = action.payload)]

\* state.steps.filter(step => step.id !== action.payload)
RemoveStepCase(s, action) ==
    [s EXCEPT !.steps =
        SelectSeq(s.steps, LAMBDA step : step.id # action.payload)]

\* UPDATE_STEP merging the updates into every step.
UpdateStepEveryStep(s, action) ==
    [s EXCEPT !.steps =
        [i \in 1..Len(s.steps) |-> Spread(s.steps[i], action.payload.updates)]]

\* state.steps.map(step => step.id === stepId ? { ...step, ...updates } : step)
UpdateStepCase(s, action) ==
    [s EXCEPT !.steps =
        [i \in 1..Len(s.steps) |->
            IF s.steps[i].id = action.payload.stepId
            THEN Spread(s.steps[i], action.payload.updates)
            ELSE s.steps[i]]]

\* CLEAR_STEPS discarding the test with the ledger.
ClearStepsDropsTest(s) == [s EXCEPT !.steps = <<>>, !.currentTest = Null]

ClearStepsCase(s) == [s EXCEPT !.steps = <<>>]

\* UPDATE_HEALING_CONFIG with the spread reversed: the prior values win.
UpdateHealingConfigPriorWins(s, action) ==
    [s EXCEPT !.healingConfig = Spread(action.payload, s.healingConfig)]

\* UPDATE_HEALING_CONFIG merging the partial into the defaults.
UpdateHealingConfigOverDefaults(s, action) ==
    [s EXCEPT !.healingConfig =
        Spread(initialState.healingConfig, action.payload)]

\* { ...state.healingConfig, ...action.payload }
UpdateHealingConfigCase(s, action) ==
    [s EXCEPT !.healingConfig = Spread(s.healingConfig, action.payload)]

recordingReducer(s, action, env) ==
    CASE action.type = "START_RECORDING" -> StartRecordingCase(s, action, env)
      [] action.type = "PAUSE_RECORDING" -> PauseRecordingCase(s)
      [] action.type = "STOP_RECORDING" -> StopRecordingCase(s)
      [] action.type = "ADD_STEP" -> AddStepCase(s, action)
      [] action.type = "REMOVE_STEP" -> RemoveStepCase(s, action)
      [] action.type = "UPDATE_STEP" -> UpdateStepCase(s, action)
      [] action.type = "CLEAR_STEPS" -> ClearStepsCase(s)
      [] action.type = "UPDATE_HEALING_CONFIG" -> UpdateHealingConfigCase(s, action)
      [] OTHER -> s

\* ------------------------------------------------------------- provider

\* The step with the spread last: { id: uuidv4(), timestamp: Date.now(), ...stepData }
BuildStepDataWins(stepData, uuid, now) ==
    Spread([id |-> uuid, timestamp |-> now], stepData)

\* The step addStep builds: { ...stepData, id: uuidv4(), timestamp: Date.now() }
BuildStep(stepData, uuid, now) ==
    Spread(stepData, [id |-> uuid, timestamp |-> now])

\* No startRecording yet, or a call other than addStep and removeStep since.
NoSession == [open |-> FALSE]

\* currentTest's id, 0 when there is none.
TestId(s) == IF s.currentTest = Null THEN 0 ELSE s.currentTest.id

Init ==
    /\ state = initialState
    /\ uuidCount = 0
    /\ clock = 1
    /\ lastCall = [op |-> "none"]
    /\ hook = [scope |-> "none"]
    /\ session = NoSession

\* Time passes.
Tick ==
    /\ clock + 1 \in Times
    /\ clock' = clock + 1
    /\ UNCHANGED <<state, uuidCount, lastCall, hook, session>>

startRecording(testName, url) ==
    /\ uuidCount < MaxUuid
    /\ \E env \in EnvSet(uuidCount, clock) :
          /\ state' = recordingReducer(state,
                        [type |-> "START_RECORDING",
                         payload |-> [testName |-> testName, url |-> url]], env)
          /\ clock' = env.lastModified
    /\ uuidCount' = uuidCount + 1
    /\ lastCall' = [op |-> "startRecording", testName |-> testName, url |-> url,
                    priorSteps |-> Len(state.steps), priorTest |-> TestId(state),
                    priorRecording |-> state.isRecording,
                    priorPaused |-> state.isPaused]
    /\ session' = [open |-> TRUE, testName |-> testName, url |-> url,
                   added |-> <<>>, removed |-> {}]
    /\ UNCHANGED hook

pauseRecording ==
    /\ state' = recordingReducer(state, [type |-> "PAUSE_RECORDING"], <<>>)
    /\ lastCall' = [op |-> "pauseRecording", before |-> state,
                    repeated |-> lastCall.op = "pauseRecording"]
    /\ session' = NoSession
    /\ UNCHANGED <<uuidCount, clock, hook>>

stopRecording ==
    /\ state' = recordingReducer(state, [type |-> "STOP_RECORDING"], <<>>)
    /\ lastCall' = [op |-> "stopRecording"]
    /\ session' = NoSession
    /\ UNCHANGED <<uuidCount, clock, hook>>

addStep(stepData) ==
    /\ uuidCount < MaxUuid
    /\ state' = recordingReducer(state,
                    [type |-> "ADD_STEP",
                     payload |-> BuildStep(stepData, uuidCount + 1, clock)], <<>>)
    /\ uuidCount' = uuidCount + 1
    /\ lastCall' = [op |-> "addStep", stepData |-> stepData]
    /\ session' = IF session.open
                  THEN [session EXCEPT !.added =
                           Append(@, [id |-> uuidCount + 1,
                                      action |-> stepData.action])]
                  ELSE session
    /\ UNCHANGED <<clock, hook>>

removeStep(stepId) ==
    /\ state' = recordingReducer(state,
                    [type |-> "REMOVE_STEP", payload |-> stepId], <<>>)
    /\ lastCall' = [op |-> "removeStep", stepId |-> stepId]
    /\ session' = IF session.open
                  THEN [session EXCEPT !.removed = @ \cup {stepId}]
                  ELSE session
    /\ UNCHANGED <<uuidCount, clock, hook>>

updateStep(stepId, updates) ==
    /\ state' = recordingReducer(state,
                    [type |-> "UPDATE_STEP",
                     payload |-> [stepId |-> stepId, updates |-> updates]], <<>>)
    /\ lastCall' = [op |-> "updateStep", stepId |-> stepId]
    /\ session' = NoSession
    /\ UNCHANGED <<uuidCount, clock, hook>>

clearSteps ==
    /\ state' = recordingReducer(state, [type |-> "CLEAR_STEPS"], <<>>)
    /\ lastCall' = [op |-> "clearSteps"]
    /\ session' = NoSession
    /\ UNCHANGED <<uuidCount, clock, hook>>

updateHealingConfig(config) ==
    /\ state' = recordingReducer(state,
                    [type |-> "UPDATE_HEALING_CONFIG", payload |-> config], <<>>)
    /\ lastCall' = [op |-> "updateHealingConfig", config |-> config]
    /\ session' = NoSession
    /\ UNCHANGED <<uuidCount, clock, hook>>

\* createContext<RecordingContextType | undefined>(undefined)
Undefined == [undefined |-> TRUE]

\* The value RecordingContext.Provider hands to the components below it.
ProviderValue(s) ==
    [state |-> s,
     callbacks |-> {"startRecording", "pauseRecording", "stopRecording",
                    "addStep", "removeStep", "updateStep", "clearSteps",
                    "updateHealingConfig"}]

\* Where a component can be rendered: below a RecordingProvider or not.
Scopes == {"inside", "outside"}

\* useContext(RecordingContext): the value of the nearest provider above the
\* component, the default of createContext when there is none.
useContext(scope, s) ==
    IF scope = "inside" THEN ProviderValue(s) ELSE Undefined

\* useRecording without the test for undefined.
useRecordingUnchecked(context) == [returned |-> context]

\* if (context === undefined) throw new Error(...); return context;
useRecording(context) ==
    IF context = Undefined
    THEN [threw |-> "useRecording must be used within a RecordingProvider"]
    ELSE [returned |-> context]

\* A component rendered in the scope calls useRecording().
callUseRecording(scope) ==
    /\ hook' = [scope |-> scope,
                threw |-> "threw" \in DOMAIN useRecording(useContext(scope, state))]
    /\ UNCHANGED <<state, uuidCount, clock, lastCall, session>>

\* Every command, the ledger bounded.
Next ==
    \/ Tick
    \/ \E i \in StartInputs : startRecording(i[1], i[2])
    \/ pauseRecording
    \/ stopRecording
    \/ \E d \in StepDataSet : Len(state.steps) < MaxSteps /\ addStep(d)
    \/ \E i \in CallerIds : removeStep(i)
    \/ \E i \in CallerIds, u \in StepUpdateSet : updateStep(i, u)
    \/ clearSteps
    \/ \E c \in HealingPartialFew : updateHealingConfig(c)

Spec == Init /\ [][Next]_vars

\* The lifecycle commands and the ledger commands, the ledger bounded.
NextControls ==
    \/ \E i \in StartInputs : startRecording(i[1], i[2])
    \/ pauseRecording
    \/ stopRecording
    \/ \E d \in StepDataSet : Len(state.steps) < MaxSteps /\ addStep(d)
    \/ \E i \in CallerIds : removeStep(i)
    \/ \E i \in CallerIds, u \in StepUpdateSet : updateStep(i, u)
    \/ clearSteps

SpecControls == Init /\ [][NextControls]_vars

\* Components calling useRecording() while the eight commands are invoked.
NextConsumer ==
    \/ \E scope \in Scopes : callUseRecording(scope)
    \/ \E i \in StartInputs : startRecording(i[1], i[2])
    \/ pauseRecording
    \/ stopRecording
    \/ \E d \in StepDataSet : Len(state.steps) < MaxSteps /\ addStep(d)
    \/ \E i \in CallerIds : removeStep(i)
    \/ \E i \in CallerIds, u \in StepUpdateSet : updateStep(i, u)
    \/ clearSteps
    \/ \E c \in HealingPartialFew : updateHealingConfig(c)

SpecConsumer == Init /\ [][NextConsumer]_vars

\* The ledger alone: steps added and removed, as many as uuidv4() allows.
NextLedger ==
    \/ Tick
    \/ \E d \in StepDataSet : addStep(d)
    \/ \E i \in CallerIds : removeStep(i)

SpecLedger == Init /\ [][NextLedger]_vars

\* The healing policy store alone, under every configuration a caller supplies.
NextHealing ==
    \/ Tick
    \/ pauseRecording
    \/ stopRecording
    \/ \E c \in HealingPartialSet : updateHealingConfig(c)

SpecHealing == Init /\ [][NextHealing]_vars

\* updateHealingConfig invoked again and again, and nothing else.
NextMerge ==
    \E c \in HealingPartialSet : updateHealingConfig(c)

SpecMerge == Init /\ [][NextMerge]_vars

\* ------------------------------------------------------------- claims

\* What two evaluations of the reducer can read: uuidv4() never returns the
\* same identifier twice, and the clock may have moved.
EnvReadings ==
    UNION { EnvSet(n, t) : n \in {uuidCount, uuidCount + 1},
                           t \in {u \in Times : u >= clock} }

\* C1: in every reachable state no two steps of the ledger have the same id.
C1_UniqueStepIds ==
    \A i, j \in 1..Len(state.steps) :
        i # j => state.steps[i].id # state.steps[j].id

\* C2: updateStep(id, partialFields) on an id of the ledger leaves the ledger's
\* length, and the id of every step it matched, at its index, as they were.
C2_UpdateKeepsIdAndPosition ==
    [][\A i \in CallerIds, u \in StepUpdateSet :
          (updateStep(i, u) /\ i \in StepIds(state.steps)) =>
             /\ Len(state'.steps) = Len(state.steps)
             /\ \A k \in 1..Len(state.steps) :
                   state.steps[k].id = i => state'.steps[k].id = i]_vars

\* C3: two evaluations of the reducer on the same state and the same action
\* give the same state, whatever they read outside their arguments.
SameResult(action) ==
    \A e1, e2 \in EnvReadings :
        recordingReducer(state, action, e1) = recordingReducer(state, action, e2)

C3_ReducerDeterministic ==
    /\ \A t \in {"PAUSE_RECORDING", "STOP_RECORDING", "CLEAR_STEPS"} :
          SameResult([type |-> t])
    /\ \A d \in StepDataSet :
          SameResult([type |-> "ADD_STEP",
                      payload |-> BuildStep(d, uuidCount + 1, clock)])
    /\ \A i \in CallerIds : SameResult([type |-> "REMOVE_STEP", payload |-> i])
    /\ \A i \in CallerIds, u \in StepUpdateSet :
          SameResult([type |-> "UPDATE_STEP",
                      payload |-> [stepId |-> i, updates |-> u]])
    /\ \A c \in HealingPartialFew :
          SameResult([type |-> "UPDATE_HEALING_CONFIG", payload |-> c])
    /\ \A i \in StartInputs :
          SameResult([type |-> "START_RECORDING",
                      payload |-> [testName |-> i[1], url |-> i[2]]])

\* C4 as stated: in every reachable state isPaused implies isRecording.
C4_PausedImpliesRecording == state.isPaused => state.isRecording

\* C4 as amended: isPaused implies isRecording initially and after every
\* command that finds it so, except pauseRecording invoked while isRecording
\* is false; startRecording and stopRecording always leave isPaused false.
C4_PausedOutsideRecordingOnlyByPause ==
    [][/\ ( /\ state.isPaused => state.isRecording
            /\ ~(pauseRecording /\ ~state.isRecording) )
          => (state'.isPaused => state'.isRecording)
       /\ lastCall'.op \in {"startRecording", "stopRecording"}
          => ~state'.isPaused]_vars

C4_Witness ==
    /\ lastCall.op = "pauseRecording"
    /\ state.isPaused
    /\ state.isRecording

\* C5: the id of the step addStep appends is the identifier uuidv4() has just
\* produced: it is none of the identifiers produced before (those of removed
\* and cleared steps included), and it is not the id the caller supplied.
C5_AddStepIdFresh ==
    [][(lastCall'.op = "addStep" /\ addStep(lastCall'.stepData)) =>
             LET new == state'.steps[Len(state'.steps)]
                 d == lastCall'.stepData IN
             /\ Len(state'.steps) = Len(state.steps) + 1
             /\ new.id = uuidCount'
             /\ new.id \notin IssuedIds
             /\ new.id \notin StepIds(state.steps)
             /\ "id" \in DOMAIN d => new.id # d.id]_vars

C5_Witness ==
    /\ lastCall.op = "addStep"
    /\ Len(state.steps) = 2
    /\ "id" \in DOMAIN lastCall.stepData
    /\ lastCall.stepData.id = state.steps[1].id
    /\ state.steps[2].id # state.steps[1].id

\* C6: after any sequence of addStep and removeStep the steps of the ledger
\* stand in the order they were added: uuidv4() numbers the steps in the order
\* of the addStep calls, and the ids of the ledger increase along it.
C6_OrderOfAddition ==
    \A i, j \in 1..Len(state.steps) :
        i < j => state.steps[i].id < state.steps[j].id

C6_Witness ==
    /\ lastCall.op = "removeStep"
    /\ lastCall.stepId = 2
    /\ Len(state.steps) = 2
    /\ state.steps[1].id = 1
    /\ state.steps[2].id = 3

HealingFields ==
    {"enabledStrategies", "confidenceThreshold", "maxRetryAttempts", "fallbackTimeout"}

\* C7: updateHealingConfig(partial) gives every field partial supplies the
\* value supplied and leaves every other field of healingConfig as it was.
C7_HealingShallowMerge ==
    [][(lastCall'.op = "updateHealingConfig"
           /\ updateHealingConfig(lastCall'.config)) =>
             LET c == lastCall'.config IN
             /\ DOMAIN state'.healingConfig = HealingFields
             /\ \A f \in HealingFields :
                   state'.healingConfig[f] =
                      IF f \in DOMAIN c THEN c[f] ELSE state.healingConfig[f]]_vars

C7_Witness ==
    /\ lastCall.op = "updateHealingConfig"
    /\ lastCall.config = [confidenceThreshold |-> 90]
    /\ state.healingConfig.confidenceThreshold = 90
    /\ state.healingConfig.maxRetryAttempts = 5
    /\ state.healingConfig.fallbackTimeout = 1000
    /\ state.healingConfig.enabledStrategies = {"ATTRIBUTE_MATCHING"}

\* C8: startRecording in a state with steps in the ledger and a current test
\* leaves the ledger empty and a current test whose id is not the id of the
\* test before, nor any identifier produced earlier in the run.
C8_StartResetsLedger ==
    [][\A i \in StartInputs :
          ( /\ startRecording(i[1], i[2])
            /\ Len(state.steps) > 0
            /\ state.currentTest # Null ) =>
             /\ state'.steps = <<>>
             /\ state'.currentTest # Null
             /\ state'.currentTest.id # state.currentTest.id
             /\ state'.currentTest.id \notin IssuedIds]_vars

C8_Witness ==
    /\ lastCall.op = "startRecording"
    /\ lastCall.priorSteps > 0
    /\ lastCall.priorTest # 0
    /\ state.steps = <<>>
    /\ state.currentTest.id # lastCall.priorTest

\* C9: removeStep and updateStep with an id no step of the ledger has leave the
\* whole state as it was.
C9_UnknownIdNoOp ==
    [][( /\ lastCall'.op \in {"removeStep", "updateStep"}
         /\ lastCall'.stepId \notin StepIds(state.steps) ) =>
             state' = state]_vars

C9_Witness ==
    /\ lastCall.op = "updateStep"
    /\ lastCall.stepId = ForeignId
    /\ Len(state.steps) = 2

\* C10: every command but startRecording leaves currentTest as it was, its id
\* and metadata.createdAt with it.
C10_TestConstantBetweenStarts ==
    [][lastCall'.op # "startRecording"
          => state'.currentTest = state.currentTest]_vars

C10_Witness ==
    /\ lastCall.op = "clearSteps"
    /\ state.currentTest # Null
    /\ state.currentTest.metadata.createdAt < clock

\* C11: stopRecording leaves isRecording and isPaused false, and currentTest,
\* the ledger and healingConfig as they were.
C11_StopKeepsTestAndSteps ==
    [][stopRecording =>
          /\ ~state'.isRecording
          /\ ~state'.isPaused
          /\ state'.currentTest = state.currentTest
          /\ state'.steps = state.steps
          /\ state'.healingConfig = state.healingConfig]_vars

C11_Witness ==
    /\ lastCall.op = "stopRecording"
    /\ ~state.isRecording
    /\ ~state.isPaused
    /\ state.currentTest # Null
    /\ Len(state.steps) = 2
    /\ state.healingConfig.confidenceThreshold = 90


\* The four settings of the lifecycle flags, and a state with them set.
LifecycleFlags == [isRecording : BOOLEAN, isPaused : BOOLEAN]

WithFlags(s, f) ==
    [s EXCEPT !.isRecording = f.isRecording, !.isPaused = f.isPaused]

\* The ledger an action leaves is the same under every setting of the flags.
LedgerWhateverFlags(action) ==
    \A f \in LifecycleFlags :
        recordingReducer(WithFlags(state, f), action, <<>>).steps
            = recordingReducer(state, action, <<>>).steps

LedgerOps == {"addStep", "removeStep", "updateStep", "clearSteps"}

\* C12: addStep, removeStep, updateStep and clearSteps can be invoked in every
\* lifecycle state; what they do to the ledger does not depend on isRecording
\* or isPaused; they leave isRecording, isPaused and currentTest as they were;
\* and clearSteps leaves the ledger empty.
C12_LedgerOpsIgnoreLifecycle ==
    /\ [](/\ \A d \in StepDataSet :
               LedgerWhateverFlags(
                   [type |-> "ADD_STEP",
                    payload |-> BuildStep(d, uuidCount + 1, clock)])
          /\ \A i \in CallerIds :
               LedgerWhateverFlags([type |-> "REMOVE_STEP", payload |-> i])
          /\ \A i \in CallerIds, u \in StepUpdateSet :
               LedgerWhateverFlags(
                   [type |-> "UPDATE_STEP",
                    payload |-> [stepId |-> i, updates |-> u]])
          /\ LedgerWhateverFlags([type |-> "CLEAR_STEPS"])
          /\ ENABLED removeStep(ForeignId)
          /\ ENABLED updateStep(ForeignId, <<>>)
          /\ ENABLED clearSteps
          /\ uuidCount < MaxUuid => ENABLED addStep([action |-> "click"]))
    /\ [][/\ lastCall'.op \in LedgerOps =>
                /\ state'.isRecording = state.isRecording
                /\ state'.isPaused = state.isPaused
                /\ state'.currentTest = state.currentTest
          /\ clearSteps => state'.steps = <<>>]_vars

C12_Witness ==
    /\ lastCall.op = "removeStep"
    /\ lastCall.stepId # ForeignId
    /\ state.isRecording
    /\ state.isPaused
    /\ state.currentTest # Null
    /\ Len(state.steps) = 1

\* C13: pauseRecording flips isPaused and changes nothing else; invoked twice in
\* a row on a session that is recording, it leaves the state as it was before
\* the first of the two calls.
C13_PauseTwiceRestores ==
    [][pauseRecording =>
          /\ state'.isPaused = ~state.isPaused
          /\ [state' EXCEPT !.isPaused = state.isPaused] = state
          /\ (lastCall.op = "pauseRecording" /\ lastCall.before.isRecording)
                => state' = lastCall.before]_vars

C13_Witness ==
    /\ lastCall.op = "pauseRecording"
    /\ lastCall.repeated
    /\ state.isRecording
    /\ ~state.isPaused
    /\ lastCall.before.isPaused
    /\ Len(state.steps) = 1

\* C14: startRecording can be invoked in every reachable state, and in every
\* one of them it leaves isRecording true and isPaused false.
C14_StartAlwaysGivesRecording ==
    /\ [](uuidCount < MaxUuid =>
             \A i \in StartInputs : ENABLED startRecording(i[1], i[2]))
    /\ [][lastCall'.op = "startRecording" =>
             /\ state'.isRecording
             /\ ~state'.isPaused]_vars

C14_Witness ==
    /\ lastCall.op = "startRecording"
    /\ lastCall.priorPaused
    /\ ~lastCall.priorRecording
    /\ lastCall.priorTest # 0
    /\ state.isRecording
    /\ ~state.isPaused

\* C15: currentTest is null exactly as long as startRecording has not been
\* invoked: it is null before the first command, startRecording makes it
\* present, no other command does, and once present it stays present.
C15_TestAbsentUntilFirstStart ==
    /\ [](lastCall.op = "none" => state.currentTest = Null)
    /\ [][/\ lastCall'.op = "startRecording" => state'.currentTest # Null
          /\ (state.currentTest = Null /\ state'.currentTest # Null)
                => lastCall'.op = "startRecording"
          /\ state.currentTest # Null => state'.currentTest # Null]_vars

C15_Witness ==
    /\ lastCall.op = "clearSteps"
    /\ ~state.isRecording
    /\ state.currentTest # Null
    /\ state.currentTest.name = "t2"

\* The id and the action of every step of a ledger, in order.
IdsAndActions(steps) ==
    [i \in 1..Len(steps) |-> [id |-> steps[i].id, action |-> steps[i].action]]

\* C16: after startRecording(n, u) and then addStep and removeStep calls only,
\* currentTest has name n and metadata.url u, and the ledger holds, in the
\* order they were added, exactly the steps added whose id was not removed.
C16_SessionHoldsAddedNotRemoved ==
    session.open =>
        /\ state.currentTest # Null
        /\ state.currentTest.name = session.testName
        /\ state.currentTest.metadata.url = session.url
        /\ IdsAndActions(state.steps)
             = SelectSeq(session.added, LAMBDA a : a.id \notin session.removed)

\* startRecording, addStep(click), addStep(type), removeStep(the click step).
C16_Witness ==
    /\ session.open
    /\ session.testName = "t1"
    /\ session.url = "http://a"
    /\ session.added = <<[id |-> 2, action |-> "click"],
                         [id |-> 3, action |-> "type"]>>
    /\ session.removed = {2}
    /\ lastCall.op = "removeStep"
    /\ Len(state.steps) = 1
    /\ state.steps[1].action = "type"

\* C17: useRecording() called outside a RecordingProvider throws and returns
\* nothing; called inside one it does not throw and returns the provider's
\* state and callbacks; and every command leaves a complete RecordingState.
C17_ThrowsExactlyOutsideProvider ==
    /\ hook.scope = "outside" =>
          /\ hook.threw
          /\ DOMAIN useRecording(useContext("outside", state)) = {"threw"}
    /\ hook.scope = "inside" =>
          /\ ~hook.threw
          /\ useRecording(useContext("inside", state))
               = [returned |-> ProviderValue(state)]
    /\ DOMAIN state = DOMAIN initialState
    /\ state.isRecording \in BOOLEAN
    /\ state.isPaused \in BOOLEAN
    /\ DOMAIN state.healingConfig = DOMAIN initialState.healingConfig

C17_Witness ==
    /\ hook.scope = "outside"
    /\ hook.threw
    /\ lastCall.op = "updateHealingConfig"
    /\ state.isRecording

\* C18: healingConfig has its four fields in every reachable state, and every
\* command other than updateHealingConfig, startRecording included, leaves it
\* as it was.
C18_OnlyUpdateHealingConfigChangesConfig ==
    /\ [](DOMAIN state.healingConfig = HealingFields)
    /\ [][lastCall'.op # "updateHealingConfig" =>
             state'.healingConfig = state.healingConfig]_vars

C18_Witness ==
    /\ lastCall.op = "startRecording"
    /\ state.healingConfig.confidenceThreshold = 90
    /\ state.healingConfig # initialState.healingConfig

\* C19: whenever currentTest is present its steps and its assertions are
\* empty, however many steps the ledger holds.
C19_TestStepsStayEmpty ==
    state.currentTest # Null =>
        /\ state.currentTest.steps = <<>>
        /\ state.currentTest.assertions = <<>>

C19_Witness ==
    /\ lastCall.op = "updateStep"
    /\ state.currentTest # Null
    /\ Len(state.steps) = 2
    /\ state.currentTest.steps = <<>>

\* healingConfig after updateHealingConfig(partial) on a state whose
\* healingConfig is config.
Merged(config, partial) ==
    recordingReducer([state EXCEPT !.healingConfig = config],
                     [type |-> "UPDATE_HEALING_CONFIG", payload |-> partial],
                     <<>>).healingConfig

\* C20: updateHealingConfig(p) twice gives what it gives once; after p then q
\* every field of q has q's value and every field of p alone has p's value;
\* and when p and q have no field in common, p then q gives what q then p
\* gives.
C20_MergeIdempotentLastWriterWins ==
    \A p, q \in HealingPartialSet :
        LET afterP == Merged(state.healingConfig, p)
            afterPQ == Merged(afterP, q) IN
        /\ Merged(afterP, p) = afterP
        /\ \A f \in DOMAIN q : afterPQ[f] = q[f]
        /\ \A f \in (DOMAIN p) \ (DOMAIN q) : afterPQ[f] = p[f]
        /\ (DOMAIN p) \cap (DOMAIN q) = {} =>
              afterPQ = Merged(Merged(state.healingConfig, q), p)

C20_Witness ==
    /\ lastCall.op = "updateHealingConfig"
    /\ lastCall.config = [maxRetryAttempts |-> 5, fallbackTimeout |-> 1000]
    /\ state.healingConfig.maxRetryAttempts = 5
    /\ state.healingConfig.fallbackTimeout = 1000
    /\ state.healingConfig.confidenceThreshold = 90
    /\ state.healingConfig.enabledStrategies = {"ATTRIBUTE_MATCHING"}

====
